---------------------------- MODULE Spec2Model ----------------------------
(***************************************************************************)
(* State-machine model of isaac-floor-recorder (src/src/main.ts).          *)
(*                                                                         *)
(* The mod keeps its state in module-level variables and reacts to three   *)
(* host callbacks: MC_POST_RENDER, MC_POST_GAME_STARTED, MC_POST_NEW_LEVEL.*)
(* Every function of main.ts is an operator that takes the whole world     *)
(* (the mod's variables plus the part of the host it reads and writes) as  *)
(* a record and returns the world after the call; a function that returns  *)
(* a value returns [st |-> world, ret |-> value].  An action applies one   *)
(* handler to the current world and stores the result.                     *)
(***************************************************************************)
EXTENDS Integers, Sequences, FiniteSets, TLC

(***************************************************************************)
(* Program constants.                                                      *)
(***************************************************************************)
MOD_NAME == "isaac-floor-recorder"
\* LevelStage.STAGE8 (Home), the last member of the LevelStage enum
FINAL_STAGE == 13
NUMBER_OF_SEEDS_BEFORE_WRITING_TO_DISK == 100
\* mutant: Home left out of the set
STAGES_TO_SKIP_mut == {9}

STAGES_TO_SKIP == {9, 13}

\* members of the host's enums that main.ts names
STAGE1_1 == 1
STAGETYPE_ORIGINAL == 0
STAGETYPE_WOTL == 1
STAGETYPE_GREEDMODE == 3
STAGETYPE_REPENTANCE == 4
STAGETYPE_REPENTANCE_B == 5
DIFFICULTY_NORMAL == 0
CHALLENGE_NULL == 0
PLAYER_ISAAC == 0

\* the value of a variable typed "| null" that holds null
NULL == "null"

(***************************************************************************)
(* Bounds of the model.                                                    *)
(***************************************************************************)
\* runs the host starts in the specification with a free environment
MaxRuns == 2
\* runs the host starts in the specification with a well-behaved host
MaxHostRuns == 102
\* events caused by the player (a manual restart, walking to the next floor)
MaxUserActs == 1
\* runs the host starts in the specification with fairness
MaxLiveRuns == 3

VARIABLES
    \* ---- the mod's module-level variables (main.ts 32-39)
    mod,                     \* NULL or the registered mod
    currentStartSeedString,  \* NULL or a seed string
    restart,
    recordingStage,
    recordingStageType,
    floorsMap,               \* reference to a LuaTable (a key of tables)
    seedsMap,                \* seed string -> reference to a LuaTable
    seedsMapSize,
    tables,                  \* the heap: reference -> FloorsMap contents
    \* ---- the host
    callbacks,               \* callbacks registered by main()
    hostRun,                 \* number of the current run, 0 before the first
    hostStage,               \* floor the host has loaded
    hostStageType,
    seedEffect,              \* SEED_PREVENT_ALL_CURSES is active
    pendingGameStarted,      \* the run's MC_POST_GAME_STARTED is still to come
    pendingNewLevel,         \* the run's initial MC_POST_NEW_LEVEL is still to come
    cmdLoad,                 \* load-floor command in flight, <<>> if none
    cmdRestart,              \* restart command in flight
    saveData,                \* <<contents of the save#.dat file>>, <<>> if never written
    userActs,                \* player-caused events so far
    \* ---- history
    event,                   \* the handler that ran last
    trace,                   \* what that handler did, in order
    trail,                   \* cursor values taken since the traversal began
    erroredRun               \* run in which validateRun raised an error, 0 if none

progVars == <<mod, currentStartSeedString, restart, recordingStage,
              recordingStageType, floorsMap, seedsMap, seedsMapSize, tables>>
hostVars == <<callbacks, hostRun, hostStage, hostStageType, seedEffect,
              pendingGameStarted, pendingNewLevel, cmdLoad, cmdRestart,
              saveData, userActs>>
histVars == <<event, trace, trail, erroredRun>>
vars == <<progVars, hostVars, histVars>>

(***************************************************************************)
(* The host's query surface.                                               *)
(***************************************************************************)
\* getStartSeedString(): every run has its own seed string
SeedString(run) == "S" \o ToString(run)

getStartSeedString(w) == SeedString(w.hostRun)

\* getRooms(): the room descriptors of the loaded floor.  The static data of
\* a room depends on the seed and on the floor; one descriptor has no data.
\* Data is <<the data>>, or <<>> for undefined.
getRooms(w) ==
    << [SafeGridIndex |-> 84,
        Data |-> << [Shape |-> 1, StageID |-> w.hostStage,
                     Variant |-> w.hostRun, Subtype |-> w.hostStageType] >>],
       [SafeGridIndex |-> 85, Data |-> <<>>] >>

EmptyTable == [k \in {} |-> 0]

\* the world at the start of a step
World ==
    [mod |-> mod, currentStartSeedString |-> currentStartSeedString,
     restart |-> restart, recordingStage |-> recordingStage,
     recordingStageType |-> recordingStageType, floorsMap |-> floorsMap,
     seedsMap |-> seedsMap, seedsMapSize |-> seedsMapSize, tables |-> tables,
     callbacks |-> callbacks, hostRun |-> hostRun, hostStage |-> hostStage,
     hostStageType |-> hostStageType, seedEffect |-> seedEffect,
     pendingGameStarted |-> pendingGameStarted,
     pendingNewLevel |-> pendingNewLevel,
     cmdLoad |-> cmdLoad, cmdRestart |-> cmdRestart, saveData |-> saveData,
     userActs |-> userActs,
     trace |-> <<>>, threw |-> FALSE]

Log(w, e) == [w EXCEPT !.trace = Append(@, e)]

\* error(msg): raises; every caller up to the host is unwound
error(w, msg) == [Log(w, [call |-> "error", msg |-> msg]) EXCEPT !.threw = TRUE]

\* goToStage(stage, stageType): the load-floor command
goToStage(w, stage, stageType) ==
    Log([w EXCEPT !.cmdLoad = <<stage, stageType>>],
        [call |-> "goToStage", stage |-> stage, stageType |-> stageType])

\* jsonEncode(seedsMap): the text holds the contents of every table reached
jsonEncode(w) == [s \in DOMAIN w.seedsMap |-> w.tables[w.seedsMap[s]]]

\* new LuaTable(): a reference no live table has
NewRef(live) == CHOOSE r \in 1..(Cardinality(live) + 1) : r \notin live


(***************************************************************************)
(* main.ts, function by function.                                          *)
(***************************************************************************)
restartOnNextFrame(w) ==
    Log([w EXCEPT !.restart = TRUE], [call |-> "restartOnNextFrame"])

\* mutant: an uninitialised mod is skipped silently
writeAllRecordedDataToSaveDatFile_mut(w) ==
    IF w.mod = NULL
    THEN w
    ELSE LET data == jsonEncode(w)
         IN  Log([w EXCEPT !.saveData = <<data>>], [call |-> "SaveData"])

writeAllRecordedDataToSaveDatFile(w) ==
    IF w.mod = NULL
    THEN error(w, "Mod was not initialized.")
    ELSE LET data == jsonEncode(w)
         IN  Log([w EXCEPT !.saveData = <<data>>], [call |-> "SaveData"])

\* mutant: the batch test dropped, every fold writes
recordAllFloorsToSeedMap_mut(w) ==
    LET startSeedString == getStartSeedString(w)
        w1 == [w EXCEPT
                 !.seedsMap = (startSeedString :> w.floorsMap) @@ @,
                 !.seedsMapSize = @ + 1]
        w2 == Log(w1, [call |-> "seedsMap.set", seed |-> startSeedString])
    IN  writeAllRecordedDataToSaveDatFile(w2)

\* mutant: the batch test and the write come before the seed is stored
recordAllFloorsToSeedMap_mut2(w) ==
    LET startSeedString == getStartSeedString(w)
        w0 == IF w.seedsMapSize % NUMBER_OF_SEEDS_BEFORE_WRITING_TO_DISK = 0
              THEN writeAllRecordedDataToSaveDatFile(w)
              ELSE w
        w1 == [w0 EXCEPT
                 !.seedsMap = (startSeedString :> w.floorsMap) @@ @,
                 !.seedsMapSize = @ + 1]
    IN  Log(w1, [call |-> "seedsMap.set", seed |-> startSeedString])

recordAllFloorsToSeedMap(w) ==
    LET startSeedString == getStartSeedString(w)
        w1 == [w EXCEPT
                 !.seedsMap = (startSeedString :> w.floorsMap) @@ @,
                 !.seedsMapSize = @ + 1]
        w2 == Log(w1, [call |-> "seedsMap.set", seed |-> startSeedString])
    IN  IF w2.seedsMapSize % NUMBER_OF_SEEDS_BEFORE_WRITING_TO_DISK = 0
        THEN writeAllRecordedDataToSaveDatFile(w2)
        ELSE w2

\* mutant: the restart is scheduled before the fold
incrementStage_mut(w) ==
    LET s1 == w.recordingStage + 1
        s2 == IF s1 \in STAGES_TO_SKIP THEN s1 + 1 ELSE s1
    IN  IF s2 > FINAL_STAGE
        THEN LET w1 == recordAllFloorsToSeedMap(restartOnNextFrame(
                           [w EXCEPT !.recordingStage = STAGE1_1]))
             IN  IF w1.threw
                 THEN [st |-> w1, ret |-> FALSE]
                 ELSE [st |-> Log(w1, [call |-> "incrementStage", ret |-> TRUE]),
                       ret |-> TRUE]
        ELSE [st |-> Log([w EXCEPT !.recordingStage = s2],
                         [call |-> "incrementStage", ret |-> FALSE]),
              ret |-> FALSE]

\* Returns true if we are restarting to the next seed.
incrementStage(w) ==
    LET s1 == w.recordingStage + 1
        s2 == IF s1 \in STAGES_TO_SKIP THEN s1 + 1 ELSE s1
    IN  IF s2 > FINAL_STAGE
        THEN LET w1 == recordAllFloorsToSeedMap(
                           [w EXCEPT !.recordingStage = STAGE1_1])
             IN  IF w1.threw
                 THEN [st |-> w1, ret |-> FALSE]
                 ELSE [st |-> Log(restartOnNextFrame(w1),
                                  [call |-> "incrementStage", ret |-> TRUE]),
                       ret |-> TRUE]
        ELSE [st |-> Log([w EXCEPT !.recordingStage = s2],
                         [call |-> "incrementStage", ret |-> FALSE]),
              ret |-> FALSE]

\* mutant: the clause for stages 7 and 8 dropped
getMaxStageType_mut(stage) ==
    IF stage = 9 THEN STAGETYPE_ORIGINAL
    ELSE IF stage = 10 \/ stage = 11 THEN STAGETYPE_WOTL
    ELSE IF stage = 12 THEN STAGETYPE_ORIGINAL
    ELSE IF stage = 13 THEN STAGETYPE_WOTL
    ELSE STAGETYPE_REPENTANCE_B

getMaxStageType(stage) ==
    IF stage = 7 \/ stage = 8 THEN STAGETYPE_REPENTANCE
    ELSE IF stage = 9 THEN STAGETYPE_ORIGINAL
    ELSE IF stage = 10 \/ stage = 11 THEN STAGETYPE_WOTL
    ELSE IF stage = 12 THEN STAGETYPE_ORIGINAL
    ELSE IF stage = 13 THEN STAGETYPE_WOTL
    ELSE STAGETYPE_REPENTANCE_B

\* mutant: STAGETYPE_GREEDMODE not skipped
incrementStageType_mut(w) ==
    LET t1 == w.recordingStageType + 1
    IN  IF t1 > getMaxStageType(w.recordingStage)
        THEN incrementStage([w EXCEPT !.recordingStageType = STAGETYPE_ORIGINAL])
        ELSE [st |-> [w EXCEPT !.recordingStageType = t1], ret |-> FALSE]

\* Returns true if we are restarting to the next seed.
incrementStageType(w) ==
    LET t1 == w.recordingStageType + 1
        t2 == IF t1 = STAGETYPE_GREEDMODE THEN t1 + 1 ELSE t1
    IN  IF t2 > getMaxStageType(w.recordingStage)
        THEN incrementStage([w EXCEPT !.recordingStageType = STAGETYPE_ORIGINAL])
        ELSE [st |-> [w EXCEPT !.recordingStageType = t2], ret |-> FALSE]

\* mutant: the cursor is not advanced before the next load-floor command
moveToNextFloor_mut(w) ==
    goToStage(w, w.recordingStage, w.recordingStageType)

moveToNextFloor(w) ==
    LET r == incrementStageType(w)
    IN  IF r.st.threw \/ r.ret
        THEN r.st
        ELSE goToStage(r.st, r.st.recordingStage, r.st.recordingStageType)

\* the loop of recordFloor over the room descriptors
RECURSIVE RoomsMapOf(_, _)
RoomsMapOf(rooms, roomsMap) ==
    IF rooms = <<>> THEN roomsMap
    ELSE LET roomDesc == Head(rooms)
         IN  IF roomDesc.Data = <<>>
             THEN RoomsMapOf(Tail(rooms), roomsMap)
             ELSE LET data == roomDesc.Data[1]
                  IN  RoomsMapOf(Tail(rooms),
                          (ToString(roomDesc.SafeGridIndex) :>
                              [shape |-> data.Shape, stageID |-> data.StageID,
                               variant |-> data.Variant, subType |-> data.Subtype])
                          @@ roomsMap)

\* mutant: the key without the dot
FloorsMapIndex_mut(stage, stageType) == ToString(stage) \o ToString(stageType)

\* `${recordingStage}.${recordingStageType}`
FloorsMapIndex(stage, stageType) == ToString(stage) \o "." \o ToString(stageType)

recordFloor(w) ==
    LET roomsMap == RoomsMapOf(getRooms(w), EmptyTable)
        floorsMapIndex == FloorsMapIndex(w.recordingStage, w.recordingStageType)
    IN  Log([w EXCEPT !.tables[w.floorsMap] = (floorsMapIndex :> roomsMap) @@ @],
            [call |-> "floorsMap.set", key |-> floorsMapIndex])

\* mutant: the early return on a new seed is missing
postNewLevel_mut(w) ==
    LET startSeedString == getStartSeedString(w)
        w0 == [w EXCEPT !.currentStartSeedString = startSeedString]
    IN  moveToNextFloor(recordFloor(w0))

\* mutant: the new seed is not remembered
postNewLevel_mut2(w) ==
    LET startSeedString == getStartSeedString(w)
    IN  IF startSeedString # w.currentStartSeedString
        THEN w
        ELSE LET w1 == recordFloor(w)
             IN  moveToNextFloor(w1)

postNewLevel(w) ==
    LET startSeedString == getStartSeedString(w)
    IN  IF startSeedString # w.currentStartSeedString
        THEN [w EXCEPT !.currentStartSeedString = startSeedString]
        ELSE LET w1 == recordFloor(w)
             IN  moveToNextFloor(w1)

\* mutant: the run goes on in the call that adds the curse effect
validateRun_mut(w, run) ==
    IF run.continued \/ run.onSetSeed \/ run.difficulty # DIFFICULTY_NORMAL
       \/ run.challenge # CHALLENGE_NULL \/ run.character # PLAYER_ISAAC
    THEN [st |-> error(w, "will not work on this run"), ret |-> FALSE]
    ELSE IF ~w.seedEffect
    THEN [st |-> restartOnNextFrame(
                    Log([w EXCEPT !.seedEffect = TRUE], [call |-> "AddSeedEffect"])),
          ret |-> TRUE]
    ELSE [st |-> w, ret |-> TRUE]

\* run is what the host reports about the run that started
validateRun(w, run) ==
    IF run.continued
    THEN [st |-> error(w, "will not work when continuing a run"), ret |-> FALSE]
    ELSE IF run.onSetSeed
    THEN [st |-> error(w, "will not work on set seeds"), ret |-> FALSE]
    ELSE IF run.difficulty # DIFFICULTY_NORMAL
    THEN [st |-> error(w, "will not work on non-normal difficulties"), ret |-> FALSE]
    ELSE IF run.challenge # CHALLENGE_NULL
    THEN [st |-> error(w, "will not work on challenges"), ret |-> FALSE]
    ELSE IF run.character # PLAYER_ISAAC
    THEN [st |-> error(w, "will not work on characters other than Isaac"), ret |-> FALSE]
    ELSE IF ~w.seedEffect
    THEN [st |-> restartOnNextFrame(
                    Log([w EXCEPT !.seedEffect = TRUE], [call |-> "AddSeedEffect"])),
          ret |-> FALSE]
    ELSE [st |-> w, ret |-> TRUE]

\* floorsMap = new LuaTable(): a table nothing references any more is dropped
NewFloorsMap(w) ==
    LET live == {w.seedsMap[s] : s \in DOMAIN w.seedsMap}
        ref  == NewRef(live)
    IN  [w EXCEPT !.floorsMap = ref,
                  !.tables = [r \in live \cup {ref} |->
                                 IF r = ref THEN EmptyTable ELSE w.tables[r]]]

postGameStarted(w, run) ==
    LET r == validateRun(w, run)
    IN  IF r.st.threw \/ ~r.ret
        THEN r.st
        ELSE LET w1 == NewFloorsMap(r.st)
             IN  goToStage(w1, w1.recordingStage, w1.recordingStageType)

\* mutant: the flag is not cleared
postRender_mut(w) ==
    IF w.restart
    THEN Log([w EXCEPT !.cmdRestart = TRUE],
             [call |-> "ExecuteCommand", command |-> "restart"])
    ELSE w

postRender(w) ==
    IF w.restart
    THEN Log([w EXCEPT !.restart = FALSE, !.cmdRestart = TRUE],
             [call |-> "ExecuteCommand", command |-> "restart"])
    ELSE w

main(w) ==
    [w EXCEPT !.mod = MOD_NAME,
              !.callbacks = {"MC_POST_RENDER", "MC_POST_GAME_STARTED",
                             "MC_POST_NEW_LEVEL"}]


(***************************************************************************)
(* The state machine.                                                      *)
(***************************************************************************)
\* stage types the host picks from for the first floor of a run
InitialStageTypes == {STAGETYPE_ORIGINAL, STAGETYPE_WOTL}

\* a run validateRun accepts
EligibleRun ==
    [continued |-> FALSE, onSetSeed |-> FALSE, difficulty |-> DIFFICULTY_NORMAL,
     challenge |-> CHALLENGE_NULL, character |-> PLAYER_ISAAC]

EligibleRuns == {EligibleRun}

\* what the host can report about a run: an eligible run, and one run for
\* each check of validateRun that fails it
Runs ==
    {EligibleRun,
     [EligibleRun EXCEPT !.continued = TRUE],
     [EligibleRun EXCEPT !.onSetSeed = TRUE],
     [EligibleRun EXCEPT !.difficulty = DIFFICULTY_NORMAL + 1],
     [EligibleRun EXCEPT !.challenge = CHALLENGE_NULL + 1],
     [EligibleRun EXCEPT !.character = PLAYER_ISAAC + 1]}

Init ==
    /\ mod = NULL
    /\ currentStartSeedString = NULL
    /\ restart = FALSE
    /\ recordingStage = STAGE1_1
    /\ recordingStageType = STAGETYPE_ORIGINAL
    /\ floorsMap = 1
    /\ tables = (1 :> EmptyTable)
    /\ seedsMap = EmptyTable
    /\ seedsMapSize = 0
    /\ callbacks = {}
    /\ hostRun = 0
    /\ hostStage = 0
    /\ hostStageType = 0
    /\ seedEffect \in BOOLEAN
    /\ pendingGameStarted = FALSE
    /\ pendingNewLevel = FALSE
    /\ cmdLoad = <<>>
    /\ cmdRestart = FALSE
    /\ saveData = <<>>
    /\ userActs = 0
    /\ event = "init"
    /\ trace = <<>>
    /\ trail = << <<STAGE1_1, STAGETYPE_ORIGINAL>> >>
    /\ erroredRun = 0

\* the traversal wrapped in the step that produced w
Completed(w) ==
    \E i \in DOMAIN w.trace : w.trace[i].call = "seedsMap.set"

\* the world after a step becomes the state
Apply(world, ev) ==
    \E w \in {world} :
        /\ mod' = w.mod
        /\ currentStartSeedString' = w.currentStartSeedString
        /\ restart' = w.restart
        /\ recordingStage' = w.recordingStage
        /\ recordingStageType' = w.recordingStageType
        /\ floorsMap' = w.floorsMap
        /\ seedsMap' = w.seedsMap
        /\ seedsMapSize' = w.seedsMapSize
        /\ tables' = w.tables
        /\ callbacks' = w.callbacks
        /\ hostRun' = w.hostRun
        /\ hostStage' = w.hostStage
        /\ hostStageType' = w.hostStageType
        /\ seedEffect' = w.seedEffect
        /\ pendingGameStarted' = w.pendingGameStarted
        /\ pendingNewLevel' = w.pendingNewLevel
        /\ cmdLoad' = w.cmdLoad
        /\ cmdRestart' = w.cmdRestart
        /\ saveData' = w.saveData
        /\ userActs' = w.userActs
        /\ event' = ev
        /\ trace' = w.trace
        /\ trail' = LET cur == <<w.recordingStage, w.recordingStageType>>
                    IN  IF Completed(w) THEN <<cur>>
                        ELSE IF cur = <<recordingStage, recordingStageType>> THEN trail
                        ELSE Append(trail, cur)
        /\ erroredRun' = IF ev = "postGameStarted" /\ w.threw THEN w.hostRun
                         ELSE erroredRun

\* the host starts a run: a new seed, a first floor of a random stage type,
\* and the two callbacks of a run's start still to deliver
StartRun(w, stageType) ==
    [w EXCEPT !.hostRun = @ + 1,
              !.hostStage = STAGE1_1,
              !.hostStageType = stageType,
              !.pendingGameStarted = TRUE,
              !.pendingNewLevel = TRUE,
              !.cmdLoad = <<>>,
              !.cmdRestart = FALSE]

\* main() runs when the host loads the mod
Main ==
    /\ callbacks = {}
    /\ Apply(main(World), "main")

\* the player starts the first run
FirstRun ==
    /\ callbacks # {}
    /\ hostRun = 0
    /\ \E st \in InitialStageTypes : Apply(StartRun(World, st), "runStarted")

\* the host executes the restart command
HostRestarts(limit) ==
    /\ cmdRestart
    /\ hostRun < limit
    /\ \E st \in InitialStageTypes : Apply(StartRun(World, st), "runStarted")

\* the player restarts the run by hand
UserRestarts ==
    /\ hostRun > 0
    /\ hostRun < MaxRuns
    /\ userActs < MaxUserActs
    /\ \E st \in InitialStageTypes :
          Apply(StartRun([World EXCEPT !.userActs = @ + 1], st), "runStarted")

Render ==
    /\ "MC_POST_RENDER" \in callbacks
    /\ hostRun > 0
    /\ Apply(postRender(World), "postRender")

GameStarted(runs) ==
    /\ "MC_POST_GAME_STARTED" \in callbacks
    /\ pendingGameStarted
    /\ \E run \in runs :
          Apply(postGameStarted([World EXCEPT !.pendingGameStarted = FALSE], run),
                "postGameStarted")

\* the first floor of a run has been generated
NewLevelInitial ==
    /\ "MC_POST_NEW_LEVEL" \in callbacks
    /\ pendingNewLevel
    /\ Apply(postNewLevel([World EXCEPT !.pendingNewLevel = FALSE]), "postNewLevel")

\* the host executes the load-floor command
NewLevelCommanded ==
    /\ "MC_POST_NEW_LEVEL" \in callbacks
    /\ cmdLoad # <<>>
    /\ ~pendingNewLevel
    /\ ~pendingGameStarted
    /\ Apply(postNewLevel([World EXCEPT !.hostStage = cmdLoad[1],
                                        !.hostStageType = cmdLoad[2],
                                        !.cmdLoad = <<>>]),
             "postNewLevel")

\* the player walks down to the next floor, once the run has started; the
\* host executes a command before the player can move
NewLevelByPlayer ==
    /\ "MC_POST_NEW_LEVEL" \in callbacks
    /\ hostRun > 0
    /\ ~pendingNewLevel
    /\ ~pendingGameStarted
    /\ cmdLoad = <<>>
    /\ userActs < MaxUserActs
    /\ hostStage < FINAL_STAGE
    /\ Apply(postNewLevel([World EXCEPT !.hostStage = @ + 1,
                                        !.hostStageType = STAGETYPE_ORIGINAL,
                                        !.userActs = @ + 1]),
             "postNewLevel")

\* any sequence of events, the player's included
Next ==
    \/ Main
    \/ FirstRun
    \/ HostRestarts(MaxRuns)
    \/ UserRestarts
    \/ Render
    \/ GameStarted(Runs)
    \/ NewLevelInitial
    \/ NewLevelCommanded
    \/ NewLevelByPlayer

Spec == Init /\ [][Next]_vars

\* the recorder left alone: eligible runs, and no event but the host's
\* answers to the mod's commands
NextHost ==
    \/ Main
    \/ FirstRun
    \/ HostRestarts(MaxHostRuns)
    \/ Render
    \/ GameStarted(EligibleRuns)
    \/ NewLevelInitial
    \/ NewLevelCommanded

SpecHost == Init /\ [][NextHost]_vars

\* the same host, for progress: it keeps rendering, executes every command
\* and delivers both events of every run it starts
NextLive ==
    \/ Main
    \/ FirstRun
    \/ HostRestarts(MaxLiveRuns)
    \/ Render
    \/ GameStarted(EligibleRuns)
    \/ NewLevelInitial
    \/ NewLevelCommanded

Fairness ==
    /\ WF_vars(Render)
    /\ WF_vars(NewLevelCommanded)
    /\ WF_vars(HostRestarts(MaxLiveRuns))
    /\ WF_vars(GameStarted(EligibleRuns))
    /\ WF_vars(NewLevelInitial)

SpecLive == Init /\ [][NextLive]_vars /\ Fairness


(***************************************************************************)
(* What the specification says of the traversal, for the properties below. *)
(***************************************************************************)
\* the stages of one traversal, in order
ExpectedStages == <<1, 2, 3, 4, 5, 6, 7, 8, 10, 11, 12>>

\* the stage types recorded for a stage
ExpectedTypes(stage) ==
    IF stage \in {7, 8} THEN {0, 1, 2, 4}
    ELSE IF stage \in {10, 11} THEN {0, 1}
    ELSE IF stage = 12 THEN {0}
    ELSE {0, 1, 2, 4, 5}

ExpectedPairs ==
    {<<ExpectedStages[i], ty>> : i \in DOMAIN ExpectedStages, ty \in {0, 1, 2, 4, 5}}
        \cap {p \in (1..12) \X (0..5) : p[2] \in ExpectedTypes(p[1])}

\* positions of the calls of one kind in a handler's trace
Calls(tr, name) == {i \in DOMAIN tr : tr[i].call = name}

IsPrefix(a, b) == Len(a) <= Len(b) /\ \A i \in DOMAIN a : a[i] = b[i]

\* the stages of a trail of cursor values, each run of equal stages once
RECURSIVE StagesOf(_)
StagesOf(t) ==
    IF t = <<>> THEN <<>>
    ELSE LET r == StagesOf(Tail(t))
         IN  IF r # <<>> /\ Head(r) = Head(t)[1] THEN r ELSE <<Head(t)[1]>> \o r

\* the stage types the cursor took on a stage
TypesTaken(stage) == {trail[i][2] : i \in {j \in DOMAIN trail : trail[j][1] = stage}}

(***************************************************************************)
(* Properties.                                                             *)
(***************************************************************************)

\* C1: a seed's partial data is never persisted: every SeedRecord in seedsMap,
\* and every SeedRecord in a durable write, has an entry for every valid
\* (stage, stageType) pair of the traversal.
C1_NoPartialSeedPersisted ==
    LET keys == {FloorsMapIndex(p[1], p[2]) : p \in ExpectedPairs}
    IN  /\ \A s \in DOMAIN seedsMap : keys \subseteq DOMAIN tables[seedsMap[s]]
        /\ \A i \in DOMAIN saveData :
              \A s \in DOMAIN saveData[i] : keys \subseteq DOMAIN saveData[i][s]

\* C2: a handler writes the save file exactly when it folded a seed and the
\* counter became a positive multiple of N; render and game-started never
\* write; the file holds the seeds of the last full batch.
C2_WriteExactlyOnFullBatch ==
    LET N == NUMBER_OF_SEEDS_BEFORE_WRITING_TO_DISK
        wrote == Calls(trace, "SaveData") # {}
        folded == Calls(trace, "seedsMap.set") # {}
    IN  /\ wrote <=> (folded /\ seedsMapSize > 0 /\ seedsMapSize % N = 0)
        /\ Cardinality(Calls(trace, "SaveData")) <= 1
        /\ event # "postNewLevel" => ~wrote
        /\ IF seedsMapSize < N
           THEN saveData = <<>>
           ELSE /\ Len(saveData) = 1
                /\ Cardinality(DOMAIN saveData[1]) = (seedsMapSize \div N) * N

C2_Witness ==
    /\ Calls(trace, "SaveData") # {}
    /\ seedsMapSize = NUMBER_OF_SEEDS_BEFORE_WRITING_TO_DISK

\* C3: from the first stage, incrementStage visits 1..8, 10, 11, 12 once each
\* in increasing order, never 9 or 13, returns false on every step but the
\* one that passes FINAL_STAGE, and there returns true with the stage reset.
C3_StageInv ==
    LET st == StagesOf(trail)
    IN  /\ IsPrefix(st, ExpectedStages)
        /\ st[Len(st)] = recordingStage

C3_StageStep ==
    LET calls == Calls(trace', "incrementStage")
        rets == {trace'[i].ret : i \in calls}
        last == ExpectedStages[Len(ExpectedStages)]
    IN  /\ Cardinality(calls) <= 1
        /\ recordingStage' # recordingStage => calls # {}
        /\ TRUE \in rets => /\ recordingStage = last
                            /\ recordingStage' = STAGE1_1
                            /\ StagesOf(trail) = ExpectedStages
        /\ FALSE \in rets => /\ recordingStage # last
                             /\ recordingStage' > recordingStage

\* C3: the stages taken are always a prefix of 1..8,10,11,12, and every
\* step obeys the return-value rule of incrementStage.
C3_StageOrder == []C3_StageInv /\ [][C3_StageStep]_vars

C3_Witness ==
    /\ \E i \in Calls(trace, "incrementStage") : trace[i].ret
    /\ recordingStage = STAGE1_1

\* C4: the cursor, every goToStage command issued and the command in flight
\* name a stage that is not excluded and not past the final stage, and a
\* stage type that is not Greed mode and not above the stage's maximum.
C4_ValidPair(stage, stageType) ==
    /\ stage \in 1..FINAL_STAGE
    /\ stage \notin {9, 13}
    /\ stageType \in 0..getMaxStageType(stage)
    /\ stageType # 3

C4_NeverInvalidPair ==
    /\ C4_ValidPair(recordingStage, recordingStageType)
    /\ \A i \in Calls(trace, "goToStage") :
          C4_ValidPair(trace[i].stage, trace[i].stageType)
    /\ cmdLoad # <<>> => C4_ValidPair(cmdLoad[1], cmdLoad[2])

C4_Witness ==
    /\ event = "postNewLevel"
    /\ \E i \in Calls(trace, "goToStage") :
          trace[i].stage = 7 /\ trace[i].stageType = 4

\* C5: in a traversal the stage types taken on a stage are exactly: 0,1,2,4
\* on stages 7 and 8 (never 5); 0 on stage 12; 0,1 on stages 10 and 11;
\* 0,1,2,4,5 on stages 1..6.
C5_ExactStageTypes ==
    /\ \A i \in DOMAIN trail : trail[i][2] \in ExpectedTypes(trail[i][1])
    /\ \A i \in DOMAIN ExpectedStages :
          ExpectedStages[i] < recordingStage
              => TypesTaken(ExpectedStages[i]) = ExpectedTypes(ExpectedStages[i])
    /\ recordingStage = 12 => TypesTaken(12) = {0}

C5_Witness ==
    /\ recordingStage = 12
    /\ Len(trail) = 43


\* C6: with every load-floor command answered for the same seed, the
\* SeedRecord folded at seed completion has exactly the 43 keys
\* "stage.stageType" of the valid pairs (6 x 5, 2 x 4, 2 x 2, 1 x 1).
C6_Keys ==
    {"1.0", "1.1", "1.2", "1.4", "1.5", "2.0", "2.1", "2.2",
     "2.4", "2.5", "3.0", "3.1", "3.2", "3.4", "3.5", "4.0",
     "4.1", "4.2", "4.4", "4.5", "5.0", "5.1", "5.2", "5.4",
     "5.5", "6.0", "6.1", "6.2", "6.4", "6.5", "7.0", "7.1",
     "7.2", "7.4", "8.0", "8.1", "8.2", "8.4", "10.0", "10.1",
     "11.0", "11.1", "12.0"}

C7_RestartStep ==
    LET n == Cardinality(Calls(trace', "ExecuteCommand"))
    IN  /\ (event' = "postRender" /\ restart) =>
              n = 1 /\ ~restart' /\ cmdRestart'
        /\ (event' = "postRender" /\ ~restart) =>
              n = 0 /\ ~restart' /\ cmdRestart' = cmdRestart
        /\ event' # "postRender" =>
              /\ n = 0
              /\ restart => restart'
              /\ event' # "runStarted" => cmdRestart' = cmdRestart

\* C7: every step obeys the one-shot restart rule.
C7_RestartOneShot == [][C7_RestartStep]_vars

C7_Witness ==
    /\ event = "postRender"
    /\ Calls(trace, "ExecuteCommand") # {}
    /\ ~restart
    /\ cmdRestart

\* C8: a game-started event for a run that passes the structural checks but
\* lacks the curse effect adds the effect and sets the restart flag, and does
\* not reset the accumulator, issue a load-floor command, move the cursor or
\* record a floor; with the effect present the accumulator is reset and a
\* load-floor command is issued.
C8_MitigationStep ==
    (/\ event' = "postGameStarted"
     /\ pendingGameStarted /\ ~pendingGameStarted'
     /\ Calls(trace', "error") = {})
    => IF ~seedEffect
       THEN /\ seedEffect'
            /\ Calls(trace', "AddSeedEffect") # {}
            /\ restart'
            /\ cmdRestart' = cmdRestart
            /\ floorsMap' = floorsMap
            /\ tables' = tables
            /\ Calls(trace', "goToStage") = {}
            /\ cmdLoad' = cmdLoad
            /\ recordingStage' = recordingStage
            /\ recordingStageType' = recordingStageType
            /\ Calls(trace', "floorsMap.set") = {}
       ELSE /\ seedEffect'
            /\ tables'[floorsMap'] = EmptyTable
            /\ Cardinality(Calls(trace', "goToStage")) = 1
            /\ cmdLoad' # <<>>
            /\ restart' = restart

\* C8: every game-started step that raises no error obeys the mitigation
\* rule, and the curse effect, once added, stays.
C8_MitigationBeforeExploring ==
    [][C8_MitigationStep /\ (seedEffect => seedEffect')]_vars

C8_Witness ==
    /\ event = "postGameStarted"
    /\ Calls(trace, "AddSeedEffect") # {}
    /\ restart
    /\ cmdLoad = <<>>

\* C9: a game-started event for a structurally ineligible run raises an
\* error and schedules no restart, adds no effect, does not reset the
\* accumulator, issues no load-floor command and leaves the cursor, seedsMap
\* and the counter alone; and after the error no later event records a floor
\* or advances the cursor for that run.
C9_ErrorStep ==
    (/\ event' = "postGameStarted"
     /\ pendingGameStarted /\ ~pendingGameStarted'
     /\ Calls(trace', "error") # {})
    => /\ restart' = restart
       /\ seedEffect' = seedEffect
       /\ floorsMap' = floorsMap
       /\ tables' = tables
       /\ Calls(trace', "goToStage") = {}
       /\ cmdLoad' = cmdLoad
       /\ recordingStage' = recordingStage
       /\ recordingStageType' = recordingStageType
       /\ seedsMap' = seedsMap
       /\ seedsMapSize' = seedsMapSize

C9_NothingAfterError ==
    (hostRun > 0 /\ erroredRun = hostRun)
    => /\ Calls(trace, "floorsMap.set") = {}
       /\ Calls(trace, "incrementStage") = {}
       /\ Calls(trace, "goToStage") = {}

\* C9: the run that raised the error records nothing afterwards, and the
\* step that raised it changed nothing.
C9_IneligibleRunHalts == []C9_NothingAfterError /\ [][C9_ErrorStep]_vars

\* the handler's own part of C9
C9_HandlerPart == [][C9_ErrorStep]_vars

\* C10: whenever a game-started event is handled for an eligible run that has
\* the curse effect, floorsMap is empty afterwards and the load-floor command
\* issued targets (STAGE1_1, STAGETYPE_ORIGINAL).
C10_RunStartsAtFirstPair ==
    (/\ event = "postGameStarted"
     /\ Calls(trace, "error") = {}
     /\ Calls(trace, "AddSeedEffect") = {})
    => /\ tables[floorsMap] = EmptyTable
       /\ Cardinality(Calls(trace, "goToStage")) = 1
       /\ \A i \in Calls(trace, "goToStage") :
             trace[i].stage = STAGE1_1 /\ trace[i].stageType = STAGETYPE_ORIGINAL
       /\ cmdLoad = <<STAGE1_1, STAGETYPE_ORIGINAL>>


\* C11: a floor-loaded event whose seed differs from the remembered seed
\* only sets the remembered seed: cursor, accumulator, seedsMap, counter and
\* restart flag are unchanged and no command, fold or write is issued.
C11_MismatchStep ==
    (/\ event' = "postNewLevel"
     /\ SeedString(hostRun') # currentStartSeedString)
    => /\ currentStartSeedString' = SeedString(hostRun')
       /\ recordingStage' = recordingStage
       /\ recordingStageType' = recordingStageType
       /\ floorsMap' = floorsMap
       /\ tables' = tables
       /\ seedsMap' = seedsMap
       /\ seedsMapSize' = seedsMapSize
       /\ restart' = restart
       /\ cmdRestart' = cmdRestart
       /\ saveData' = saveData
       /\ mod' = mod
       /\ trace' = <<>>

\* C11: every step obeys the seed-mismatch rule.
C11_MismatchOnlyRemembersSeed == [][C11_MismatchStep]_vars

C11_Witness ==
    /\ event = "postNewLevel"
    /\ trace = <<>>
    /\ hostRun = 2
    /\ currentStartSeedString = SeedString(2)
    /\ cmdLoad # <<>>
    /\ tables[floorsMap] = EmptyTable

\* C12: whenever a floor-loaded event records a floor, the floor the host has
\* loaded is the cursor value under whose key the record is stored, and the
\* rooms stored under that key are rooms of that floor.
C12_RecordedOnCursorFloor ==
    (event = "postNewLevel" /\ Calls(trace, "floorsMap.set") # {})
    => \A i \in Calls(trace, "floorsMap.set") :
          /\ trace[i].key = FloorsMapIndex(hostStage, hostStageType)
          /\ \A g \in DOMAIN tables[floorsMap][trace[i].key] :
                LET room == tables[floorsMap][trace[i].key][g]
                IN  trace[i].key = FloorsMapIndex(room.stageID, room.subType)

\* C13: no step removes an entry of seedsMap or changes the SeedRecord stored
\* under an existing seed, and a step that adds an entry is a fold (a
\* postNewLevel step in which incrementStage wrapped and called seedsMap.set).
C13_DatasetStep ==
    /\ \A s \in DOMAIN seedsMap :
          /\ s \in DOMAIN seedsMap'
          /\ tables'[seedsMap'[s]] = tables[seedsMap[s]]
    /\ DOMAIN seedsMap' # DOMAIN seedsMap
       => /\ event' = "postNewLevel"
          /\ Calls(trace', "seedsMap.set") # {}
          /\ \E i \in Calls(trace', "incrementStage") : trace'[i].ret

\* C13: seedsMap is append-only and changed only by a fold.
C13_DatasetAppendOnly == [][C13_DatasetStep]_vars

C14_CounterInv == seedsMapSize = Cardinality(DOMAIN seedsMap)

C14_FoldStep ==
    /\ seedsMapSize' >= seedsMapSize
    /\ IF event' = "postNewLevel" /\ Calls(trace', "seedsMap.set") # {}
       THEN /\ seedsMapSize' = seedsMapSize + 1
            /\ \A i \in Calls(trace', "seedsMap.set") :
                  trace'[i].seed \notin DOMAIN seedsMap
       ELSE seedsMapSize' = seedsMapSize

\* C14: each seed is folded at most once: seedsMapSize never decreases, grows
\* by exactly one per fold, always equals the number of keys of seedsMap, and
\* no fold stores under a seed that already has an entry.
C14_EachSeedFoldedOnce == []C14_CounterInv /\ [][C14_FoldStep]_vars

\* the seeds the file on disk holds
C15_Persisted == IF saveData = <<>> THEN {} ELSE DOMAIN saveData[1]

\* C15: at most N-1 folded seeds are missing from the file on disk, and a
\* step that writes the file leaves in it every seed folded so far, with its
\* SeedRecord.
C15_BoundedLossWindow ==
    /\ C15_Persisted \subseteq DOMAIN seedsMap
    /\ Cardinality(DOMAIN seedsMap \ C15_Persisted)
          <= NUMBER_OF_SEEDS_BEFORE_WRITING_TO_DISK - 1
    /\ seedsMapSize - Cardinality(C15_Persisted)
          <= NUMBER_OF_SEEDS_BEFORE_WRITING_TO_DISK - 1
    /\ Calls(trace, "SaveData") # {}
       => /\ saveData # <<>>
          /\ saveData[1] = jsonEncode(World)

\* 99 seeds folded and none written, then the write at the 100th fold
C15_Witness ==
    /\ saveData # <<>>
    /\ Cardinality(C15_Persisted) = NUMBER_OF_SEEDS_BEFORE_WRITING_TO_DISK
    /\ seedsMapSize = NUMBER_OF_SEEDS_BEFORE_WRITING_TO_DISK + 1
    /\ event = "postNewLevel"
    /\ Calls(trace, "seedsMap.set") # {}

\* writeAllRecordedDataToSaveDatFile called in the current state as it would
\* be with mod = null
C16_NullCoreAttempt ==
    writeAllRecordedDataToSaveDatFile([World EXCEPT !.mod = NULL])

\* C16: a persist attempt with mod = null raises the fatal error and writes
\* nothing; and once main() has registered the callbacks mod is never null,
\* so no handler ever raises that error.
C16_UninitialisedCoreIsFatal ==
    /\ C16_NullCoreAttempt.threw
    /\ C16_NullCoreAttempt.saveData = saveData
    /\ Calls(C16_NullCoreAttempt.trace, "SaveData") = {}
    /\ \E i \in Calls(C16_NullCoreAttempt.trace, "error") :
          C16_NullCoreAttempt.trace[i].msg = "Mod was not initialized."
    /\ callbacks # {} => mod # NULL
    /\ \A i \in Calls(trace, "error") : trace[i].msg # "Mod was not initialized."

\* a persist attempt made by a registered handler, with the core initialised
C16_Witness ==
    /\ callbacks # {}
    /\ mod = MOD_NAME
    /\ event = "postNewLevel"
    /\ Calls(trace, "SaveData") # {}
    /\ Calls(trace, "error") = {}
    /\ restart

C17_OrderedStep ==
    (event' = "postNewLevel" /\ trace' # <<>>)
    => LET tr == trace'
           fold == Calls(tr, "seedsMap.set") # {}
       IN  \* the floor is stored first, under the cursor the step began with
           /\ tr[1] = [call |-> "floorsMap.set",
                       key |-> FloorsMapIndex(recordingStage, recordingStageType)]
           /\ Calls(tr, "floorsMap.set") = {1}
           /\ <<recordingStage', recordingStageType'>>
                 # <<recordingStage, recordingStageType>>
           \* a fold happens exactly when the cursor passes FINAL_STAGE
           /\ fold <=> /\ recordingStageType = getMaxStageType(recordingStage)
                       /\ \A s \in (recordingStage + 1)..FINAL_STAGE :
                             s \in STAGES_TO_SKIP
           /\ fold <=> \E i \in Calls(tr, "incrementStage") : tr[i].ret
           /\ Cardinality(Calls(tr, "seedsMap.set")) <= 1
           \* the restart is scheduled after the fold and its write
           /\ Calls(tr, "restartOnNextFrame") # {} <=> fold
           /\ \A r \in Calls(tr, "restartOnNextFrame") :
                 \A i \in Calls(tr, "seedsMap.set") \cup Calls(tr, "SaveData") :
                    i < r
           /\ \A i \in Calls(tr, "SaveData") :
                 \A j \in Calls(tr, "seedsMap.set") : j < i
           \* seed completion issues no command, any other step exactly one
           /\ IF fold
              THEN /\ Calls(tr, "goToStage") = {}
                   /\ cmdLoad' = <<>>
                   /\ restart'
              ELSE /\ Calls(tr, "goToStage") = {Len(tr)}
                   /\ tr[Len(tr)].stage = recordingStage'
                   /\ tr[Len(tr)].stageType = recordingStageType'
                   /\ cmdLoad' = <<recordingStage', recordingStageType'>>
                   /\ restart' = restart
                   /\ seedsMap' = seedsMap

\* C17: every floor-loaded step with a matching seed records under the old
\* cursor first, folds only when the cursor passes the final stage, schedules
\* the restart only after the fold and its write, and issues no load-floor
\* command at seed completion and exactly one, for the new cursor, otherwise.
C17_StepsInOrder == [][C17_OrderedStep]_vars

C17_Witness ==
    /\ event = "postNewLevel"
    /\ Len(trace) = 4
    /\ trace[1].call = "floorsMap.set"
    /\ trace[2].call = "seedsMap.set"
    /\ trace[3].call = "restartOnNextFrame"
    /\ trace[4].call = "incrementStage"
    /\ restart
    /\ cmdLoad = <<>>
    /\ seedsMapSize = 2

\* the accumulator has not been folded: seedsMap does not hold it
C18_AccumulatorOpen == \A s \in DOMAIN seedsMap : seedsMap[s] # floorsMap

C18_RecordStep ==
    (/\ event' = "postNewLevel"
     /\ Calls(trace', "floorsMap.set") # {}
     /\ C18_AccumulatorOpen)
    => /\ \A i \in Calls(trace', "floorsMap.set") :
             /\ trace'[i].key \notin DOMAIN tables[floorsMap]
             /\ trace'[i].key \in DOMAIN tables'[floorsMap']
       /\ floorsMap' = floorsMap
       /\ \A k \in DOMAIN tables[floorsMap] :
             /\ k \in DOMAIN tables'[floorsMap]
             /\ tables'[floorsMap][k] = tables[floorsMap][k]
       /\ <<recordingStage', recordingStageType'>>
             # <<recordingStage, recordingStageType>>

\* C18: between a reset of the accumulator and its fold every recording
\* advances the cursor and writes a key the accumulator does not have yet,
\* and leaves the FloorRecords already in it as they are.
C18_NoFloorRecordedTwice == [][C18_RecordStep]_vars

C18_Witness ==
    /\ event = "postNewLevel"
    /\ Calls(trace, "floorsMap.set") # {}
    /\ C18_AccumulatorOpen
    /\ Cardinality(DOMAIN tables[floorsMap]) = 5
    /\ hostRun = 2

\* the step records the floor the pending load-floor command asked for
C19_RecordsCommanded ==
    /\ event' = "postNewLevel"
    /\ trace' # <<>>
    /\ trace'[1] = [call |-> "floorsMap.set",
                    key |-> FloorsMapIndex(cmdLoad[1], cmdLoad[2])]
    /\ hostStage' = cmdLoad[1]
    /\ hostStageType' = cmdLoad[2]
    /\ FloorsMapIndex(cmdLoad[1], cmdLoad[2]) \in DOMAIN tables'[floorsMap']

C19_NoSkipStep ==
    \* while a command is pending, a step that drops it, issues another
    \* command or schedules or issues a restart records the commanded floor
    /\ (/\ cmdLoad # <<>>
        /\ \/ cmdLoad' # cmdLoad
           \/ Calls(trace', "goToStage") # {}
           \/ Calls(trace', "restartOnNextFrame") # {}
           \/ Calls(trace', "ExecuteCommand") # {}
           \/ hostRun' # hostRun)
       => C19_RecordsCommanded
    \* a floor-loaded event is ignored only if it is the initial arrival of
    \* a run, and then the pending command stays pending
    /\ (event' = "postNewLevel" /\ trace' = <<>>)
       => /\ pendingNewLevel /\ ~pendingNewLevel'
          /\ cmdLoad' = cmdLoad

C20_Started(r) ==
    /\ hostRun = r
    /\ event = "postGameStarted"
    /\ Calls(trace, "goToStage") # {}

\* nothing is pending: no event of the run, no command, no restart
C20_Stalled ==
    /\ hostRun > 0
    /\ ~pendingGameStarted
    /\ ~pendingNewLevel
    /\ cmdLoad = <<>>
    /\ ~restart
    /\ ~cmdRestart

\* C20: under fairness, once the traversal of a run has started, its seed is
\* folded with the restart scheduled, then the restart command is issued,
\* then the next run starts and its traversal begins; and no state is
\* stalled.  Stated for every run but the last one inside the bound.
C20_Progress ==
    /\ []~C20_Stalled
    /\ \A r \in 1..(MaxLiveRuns - 1) :
          /\ C20_Started(r)
                ~> (hostRun = r /\ SeedString(r) \in DOMAIN seedsMap /\ restart)
          /\ (hostRun = r /\ SeedString(r) \in DOMAIN seedsMap /\ restart)
                ~> (hostRun = r /\ cmdRestart)
          /\ (hostRun = r /\ cmdRestart /\ SeedString(r) \in DOMAIN seedsMap)
                ~> C20_Started(r + 1)

\* the traversal of the next seed has begun after a fold
C20_Witness ==
    /\ C20_Started(hostRun)
    /\ hostRun >= 2
    /\ SeedString(hostRun - 1) \in DOMAIN seedsMap
    /\ seedEffect

=============================================================================
